---- MODULE Spec2Model ----
(***************************************************************************)
(* A model of ui/scripts/sync_psn.py: the two-pass sync run (titles pass,  *)
(* then trophy-detail pass), its bounded remote calls, and the files it    *)
(* reads and writes (title index, backup index, temp index, per-title      *)
(* trophy caches).                                                         *)
(*                                                                         *)
(* Threads.  Every bounded call is                                         *)
(*     with ThreadPoolExecutor(max_workers=1) as ex:                       *)
(*         fut = ex.submit(f); fut.result(timeout=T)                       *)
(* Leaving the with-block calls ex.shutdown(wait=True), which joins the    *)
(* worker thread.  So when fut.result raises the timeout, the caller does  *)
(* not continue until the worker has finished.  The model has one program  *)
(* counter: the position of the innermost running code.  A bounded call    *)
(* whose deadline has passed is marked expired and its caller is in the    *)
(* join until the call completes.                                          *)
(***************************************************************************)
EXTENDS Integers, Sequences, FiniteSets, TLC

(* ------------------------------ bounds -------------------------------- *)
\* Remote failures, hangs, timeouts and interrupts over one behaviour.
MaxFaults == 2
\* Changes of the remote trophy data over one behaviour.
MaxChanges == 2
\* Rows of a cache file handed to the classifier on its own.
MaxRows == 2

\* The largest --group-timeout looked at, in tenths of a second.
MaxGroupTimeout == 120

\* Group ids resolved for one title when the cap is looked at on its own.
MaxGroupIds == 3

\* The largest count a field of a trophy-count aggregate holds.
MaxCount == 2

(* --------------------------- remote catalog --------------------------- *)
\* The account's titles in the order the provider lists them.
RemoteTitles == <<"A", "B">>

TitleName(t) == IF t = "A" THEN "Alpha" ELSE "Beta"

\* The provider's data: whether the account lists its titles, and for "A"
\* whether the DLC group exists and how many trophies are earned.  The
\* trophy data of "B", where it is asked for, has the structure of that of
\* "A", with nothing earned.
RemoteStates == [listed : BOOLEAN, dlc : BOOLEAN, earned : 0..1]

\* user.trophy_titles()
RemoteTitleList(rem) == IF rem.listed THEN RemoteTitles ELSE <<>>

\* trophy_groups of the group summary: id and remote name ("" when the
\* provider gives none).
RemoteGroups(rem) ==
    IF rem.dlc THEN << [gid |-> "default", name |-> ""], [gid |-> "001", name |-> "DLC"] >>
    ELSE << [gid |-> "default", name |-> ""] >>

BaseTrophies(rem) ==
    << [tid |-> 0, earned |-> (rem.earned = 1)], [tid |-> 1, earned |-> FALSE] >>

\* The listing of the DLC group gives its one trophy twice.
DlcTrophies == << [tid |-> 2, earned |-> FALSE], [tid |-> 2, earned |-> FALSE] >>

\* user.trophies(..., trophy_group_id=gid)
RemoteTrophies(rem, gid) ==
    CASE gid = "default" -> BaseTrophies(rem)
      [] gid = "001"     -> IF rem.dlc THEN DlcTrophies ELSE <<>>
      [] gid = "all"     -> BaseTrophies(rem) \o (IF rem.dlc THEN DlcTrophies ELSE <<>>)
      [] OTHER           -> <<>>

\* defined_trophies of the group summary, summed over the grades.
RemoteTotal(rem) == 2 + (IF rem.dlc THEN 1 ELSE 0)

RemoteEarned(rem) == rem.earned

\* The provider's progress percent.
RemotePercent(rem) == (rem.earned * 100) \div RemoteTotal(rem)

(* ------------------------------ platforms ----------------------------- *)
NoPlatform == "None"

PreferenceOrder == <<"PS5", "PS4", "PS3", "PSVITA">>

RECURSIVE FirstPreferred(_, _)
FirstPreferred(p_set, i) ==
    IF i > Len(PreferenceOrder) THEN NoPlatform
    ELSE IF PreferenceOrder[i] \in p_set THEN PreferenceOrder[i]
    ELSE FirstPreferred(p_set, i + 1)

_choose_primary_platform(p_set) ==
    IF p_set = {} THEN NoPlatform
    ELSE IF FirstPreferred(p_set, 1) # NoPlatform THEN FirstPreferred(p_set, 1)
    ELSE CHOOSE p \in p_set : TRUE

_platform_label(p) == IF p = NoPlatform THEN "" ELSE p

\* A lookup that takes any label that is not empty.
PlatformFromAnyLabel(label) == IF label = "" THEN NoPlatform ELSE label

_platform_from_label(label) ==
    IF label \in {"PS5", "PS4", "PS3", "PSVITA"} THEN label ELSE NoPlatform

(* -------------------------------- files ------------------------------- *)
\* A file: absent; or present with zero bytes (just opened for writing);
\* or present with the header and some rows.
Absent == [ex |-> FALSE, hdr |-> FALSE, rows |-> <<>>]

Truncated == [ex |-> TRUE, hdr |-> FALSE, rows |-> <<>>]

FileOf(rs) == [ex |-> TRUE, hdr |-> TRUE, rows |-> rs]

\* A text cell read back by pandas: an empty cell is NaN, and astype(str)
\* of NaN is "nan".
ReadCell(s) == IF s = "" THEN "nan" ELSE s

\* pd.read_csv(index) if it exists, else an empty frame; the Platform
\* column as the comparisons see it (astype(str)).
ReadIndex(f) ==
    IF ~f.ex THEN <<>>
    ELSE [i \in 1..Len(f.rows) |-> [f.rows[i] EXCEPT !.plat = ReadCell(f.rows[i].plat)]]

RECURSIVE SeqSum(_)
SeqSum(s) == IF s = <<>> THEN 0 ELSE Head(s) + SeqSum(Tail(s))

(* ----------------------- cache completeness --------------------------- *)
\* str.strip() on a text cell: " " is the one whitespace-only value here.
Strip(s) == IF s = " " THEN "" ELSE s

\* The classification of a parsed frame tdf.
FrameStatus(f, expected_total, expected_earned) ==
    IF f.rows = <<>> THEN "incomplete"     \* tdf.empty
    ELSE
      LET earned_ok == \E i \in 1..Len(f.rows) : f.rows[i].earned \in {"True", "False"}
          has_group_names == \E i \in 1..Len(f.rows) : Strip(ReadCell(f.rows[i].gname)) # ""
          earned_sum == Cardinality({i \in 1..Len(f.rows) : f.rows[i].earned = "True"})
          unique_ids == Cardinality({f.rows[i].tid : i \in 1..Len(f.rows)})
      IN  IF expected_earned > 0 /\ earned_sum = 0 THEN "incomplete"
          ELSE IF expected_total # 0 /\ unique_ids < expected_total THEN "incomplete"
          ELSE IF earned_ok /\ has_group_names THEN "complete"
          ELSE "incomplete"

\* A variant that reports a file it cannot parse as missing.
CacheStatusUnparsedMissing(f, expected_total, expected_earned) ==
    IF ~f.ex \/ ~f.hdr THEN "missing"
    ELSE FrameStatus(f, expected_total, expected_earned)

_cache_status(f, expected_total, expected_earned) ==
    IF ~f.ex THEN "missing"
    ELSE IF ~f.hdr THEN "incomplete"            \* read_csv raises
    ELSE FrameStatus(f, expected_total, expected_earned)

(* --------------------------- change detection ------------------------- *)
\* The rows of the previous index for (NPCommID, Platform), in file order.
Matching(prev_titles, npcomm, plat) ==
    SelectSeq(prev_titles, LAMBDA p : p.id = npcomm /\ p.plat = plat)

\* A variant that looks at the counters only, whatever the cache status.
RefreshOnCountersOnly(prev_titles, row, f) ==
    IF prev_titles = <<>> THEN FALSE
    ELSE LET prev == Matching(prev_titles, row.id, row.plat)
         IN  IF prev = <<>> THEN TRUE
             ELSE \/ row.earned # prev[1].earned
                  \/ row.total # prev[1].total
                  \/ row.pct # prev[1].pct

\* A variant that compares the totals only.
RefreshOnTotalOnly(prev_titles, row, f) ==
    IF _cache_status(f, row.total, row.earned) \in {"missing", "incomplete"} THEN TRUE
    ELSE IF prev_titles = <<>> THEN FALSE
    ELSE LET prev == Matching(prev_titles, row.id, row.plat)
         IN  IF prev = <<>> THEN TRUE
             ELSE row.total # prev[1].total

_should_refresh_cache(prev_titles, row, f) ==
    IF _cache_status(f, row.total, row.earned) \in {"missing", "incomplete"} THEN TRUE
    ELSE IF prev_titles = <<>> THEN FALSE
    ELSE LET prev == Matching(prev_titles, row.id, row.plat)
         IN  IF prev = <<>> THEN TRUE
             ELSE \/ row.earned # prev[1].earned
                  \/ row.total # prev[1].total
                  \/ row.pct # prev[1].pct

(* ----------------------------- group names ---------------------------- *)
BaseGroupIds == {"default", "all", "0", "000"}

Or(a, b) == IF a # "" THEN a ELSE b

\* An entry of the name map with no fallback to the title: gname or gid.
GroupDisplayNameOrId(g, default_title) == Or(g.name, g.gid)

\* One group's entry of the name map.
GroupDisplayName(g, default_title) ==
    LET gname == IF g.gid \in BaseGroupIds /\ g.name = ""
                 THEN Or(default_title, "Base Game") ELSE g.name
    IN  Or(gname, g.gid)

\* name_map as the ordered list of its (key, value) pairs: a key keeps the
\* position of its first insertion and the value of its last.
RECURSIVE _group_name_map(_, _)
_group_name_map(groups, default_title) ==
    IF groups = <<>> THEN <<>>
    ELSE LET n    == Len(groups)
             g    == groups[n]
             rest == _group_name_map(SubSeq(groups, 1, n - 1), default_title)
             e    == [gid |-> g.gid, name |-> GroupDisplayName(g, default_title)]
         IN  IF g.gid = "" THEN rest
             ELSE IF \E i \in 1..Len(rest) : rest[i].gid = g.gid
             THEN [i \in 1..Len(rest) |-> IF rest[i].gid = g.gid THEN e ELSE rest[i]]
             ELSE Append(rest, e)

\* gmap.get(gid), "" when absent.
MapGet(gmap, gid) ==
    IF \E i \in 1..Len(gmap) : gmap[i].gid = gid
    THEN (CHOOSE e \in {gmap[i] : i \in 1..Len(gmap)} : e.gid = gid).name
    ELSE ""

\* _group_ids: the ids of trophy_groups, empty ids left out.
_group_ids(groups) ==
    LET ids == [i \in 1..Len(groups) |-> groups[i].gid]
    IN  SelectSeq(ids, LAMBDA g : g # "")

\* "de-dup keep order"
RECURSIVE Uniq(_)
Uniq(s) ==
    IF s = <<>> THEN <<>>
    ELSE LET n == Len(s)
             rest == Uniq(SubSeq(s, 1, n - 1))
         IN  IF \E i \in 1..Len(rest) : rest[i] = s[n] THEN rest ELSE Append(rest, s[n])

\* A cap under which only a negative max_groups is unlimited.
CapGroupsZeroIsNone(uniq, max_groups) ==
    IF max_groups < 0 THEN uniq
    ELSE SubSeq(uniq, 1, IF Len(uniq) < max_groups THEN Len(uniq) ELSE max_groups)

\* max_groups <= 0 is unlimited.
CapGroups(uniq, max_groups) ==
    IF max_groups <= 0 THEN uniq
    ELSE SubSeq(uniq, 1, IF Len(uniq) < max_groups THEN Len(uniq) ELSE max_groups)

_norm_bool(b) == IF b THEN "True" ELSE "False"

\* Rows built without the seen set: every item gives a row.
RECURSIVE AddItemsUnseen(_, _, _, _)
AddItemsUnseen(rs, items, gid, group_name) ==
    IF items = <<>> THEN rs
    ELSE LET t == Head(items)
             r == [gid |-> gid, gname |-> group_name, tid |-> t.tid,
                   earned |-> _norm_bool(t.earned)]
         IN  AddItemsUnseen(Append(rs, r), Tail(items), gid, group_name)

\* The rows one group's items add to rows: an item whose (gid, tid) is
\* already there is skipped.
RECURSIVE AddItems(_, _, _, _)
AddItems(rs, items, gid, group_name) ==
    IF items = <<>> THEN rs
    ELSE LET t == Head(items)
             dup == \E i \in 1..Len(rs) : rs[i].gid = gid /\ rs[i].tid = t.tid
             r == [gid |-> gid, gname |-> group_name, tid |-> t.tid,
                   earned |-> _norm_bool(t.earned)]
         IN  AddItems(IF dup THEN rs ELSE Append(rs, r), Tail(items), gid, group_name)

GroupNameFor(gmap, gid, title) ==
    Or(MapGet(gmap, gid), IF gid \in BaseGroupIds THEN title ELSE gid)

(* ------------------------------- state -------------------------------- *)
VARIABLES
    remote,      \* the provider's data: [listed, dlc, earned]
    title_platform,   \* the platform set the provider reports for "B"
    changes,     \* remote changes so far
    sameRemote,  \* history: no remote change since the index was last written
    arg,         \* a helper called on its own: its arguments (and numeric results)
    status,      \* "none" before that call; then the classifier's answer, or "returned"
    NPSSO, ONLINE_ID,   \* the credentials as the process read them from its environment
    faults,      \* failures, hangs, timeouts and interrupts so far
    titlesCsv,   \* TITLES_CSV
    prevCsv,     \* TITLES_CSV.with_suffix(".prev.csv")
    tmpCsv,      \* TITLES_CSV.with_suffix(".tmp.csv")
    cache,       \* title -> its trophy cache file
    pc,          \* position of the running code
    refresh,     \* sync's refresh policy
    prev_df,     \* sync: the index read at the start
    titles,      \* sync: the listed titles
    idx,         \* sync: titles pass loop index
    rows,        \* sync: the title records of this run
    egids, ei, etotal,   \* _enumerate_and_count: gids, loop index, total
    new_prev,    \* sync: the backup index read after the write
    refreshed, skipped,  \* sync: the counts of the summary
    rewritten,   \* history: cache files written to their end in this run
    j,           \* sync: trophies pass loop index
    gmap, gids, gi, trows, n,   \* _cache_trophies_for: locals; n its result
    inflight,    \* the remote calls that are executing
    titleTimer,  \* the per-title deadline: "off", "armed", "expired"
    intr,        \* a KeyboardInterrupt is pending in the main thread
    stoppedAt,   \* where the last run was interrupted
    oldIndex,    \* history: TITLES_CSV as _write_titles found it
    oldCache,    \* history: the cache file as the refresh in progress found it
    noUpdate     \* history: the titles whose refresh, started on changed counters,
                 \* ended with no update: in the run before (last) and in this
                 \* one (now); cur: the refresh in progress started on changed counters

envVars  == <<remote, title_platform, changes, sameRemote, arg, status, NPSSO, ONLINE_ID>>
fileVars == <<titlesCsv, prevCsv, tmpCsv, cache>>
p1Vars   == <<prev_df, titles, idx, rows, egids, ei, etotal>>
p2Vars   == <<new_prev, refreshed, skipped, rewritten, j>>
wkVars   == <<gmap, gids, gi, trows, n>>
vars == <<envVars, faults, fileVars, pc, refresh, p1Vars, p2Vars, wkVars,
          inflight, titleTimer, intr, stoppedAt, oldIndex, oldCache, noUpdate>>

Policies == {"changed", "all", "none"}

\* Positions at which no run is in progress.
StoppedPcs == {"idle", "done", "fatal", "crashed", "interrupted"}

\* Positions inside _cache_trophies_for, which runs on the per-title worker.
WorkerPcs == {"c_begin", "c_summary", "c_group_ids", "c_group", "c_retry",
              "c_open", "c_write"}

\* Positions inside _write_titles.
WritePcs == {"wt_open", "wt_write", "wt_backup", "wt_move", "wt_rename"}

\* No call of the classifier on its own.
NoArg == [file |-> Absent, expected_total |-> 0, expected_earned |-> 0]

\* title_platform of the title summary: "A" is on PS4 and PS5, "B" on what
\* the provider reports for it.
PlatformSet(t) == IF t = "A" THEN {"PS4", "PS5"} ELSE title_platform

\* The state before the first run, the classifier's own call and the
\* platforms of "B" apart.
StartState ==
    /\ remote \in RemoteStates
    /\ changes = 0
    /\ sameRemote = FALSE
    /\ status = "none"
    /\ NPSSO = ""
    /\ ONLINE_ID = ""
    /\ faults = 0
    /\ titlesCsv = Absent
    /\ prevCsv = Absent
    /\ tmpCsv = Absent
    /\ cache = [t \in {"A", "B"} |-> Absent]
    /\ pc = "idle"
    /\ refresh = "changed"
    /\ prev_df = <<>>
    /\ titles = <<>>
    /\ idx = 1
    /\ rows = <<>>
    /\ egids = <<>>
    /\ ei = 1
    /\ etotal = 0
    /\ new_prev = <<>>
    /\ refreshed = 0
    /\ rewritten = 0
    /\ skipped = 0
    /\ j = 1
    /\ gmap = <<>>
    /\ gids = <<>>
    /\ gi = 1
    /\ trows = <<>>
    /\ n = 0
    /\ inflight = {}
    /\ titleTimer = "off"
    /\ intr = FALSE
    /\ stoppedAt = "none"
    /\ oldIndex = Absent
    /\ oldCache = Absent
    /\ noUpdate = [last |-> {}, now |-> {}, cur |-> FALSE]

\* "B" reports no platform.
ProgramInit == StartState /\ title_platform = {}

Init == ProgramInit /\ arg = NoArg

(* ---------------------------- remote calls ---------------------------- *)
\* A remote call in execution: which capability, whether it runs on an
\* executor under a deadline, whether the deadline has passed, whether the
\* provider will never answer it, and whether its caller waits for its end
\* (a direct call, or one whose with-block is left through
\* ex.shutdown(wait=True)).
Call(op, timed, hung) ==
    [op |-> op, timed |-> timed, expired |-> FALSE, hung |-> hung, joined |-> TRUE]

\* The caller at position p issues remote call op: it is not waiting for
\* the end of an earlier call.
StartCall(p, op, timed) ==
    /\ pc = p
    /\ \A c \in inflight : ~c.joined
    /\ \E hung \in BOOLEAN :
         /\ hung => faults < MaxFaults
         /\ inflight' = inflight \cup {Call(op, timed, hung)}
         /\ faults' = IF hung THEN faults + 1 ELSE faults

\* The call the caller at position p waits for returns ("ok") or raises
\* ("fail").
Returns(p, outcome) ==
    /\ pc = p
    /\ \E c \in inflight :
         /\ c.joined /\ ~c.hung
         /\ inflight' = inflight \ {c}
    /\ outcome = "fail" => faults < MaxFaults
    /\ faults' = IF outcome = "fail" THEN faults + 1 ELSE faults

\* What fut.result(timeout) gives the caller once the with-block is left:
\* the timeout if the deadline passed first, else the call's own outcome.
Seen(outcome) ==
    IF \E c \in inflight : c.joined /\ c.expired THEN "timeout" ELSE outcome

(* ------------------------------ sync: start --------------------------- *)
\* The process ends before sync returns: of the run only where it stopped
\* and the records it had built remain to be looked at.
ProcessEnds ==
    /\ prev_df' = <<>>
    /\ titles' = <<>>
    /\ idx' = 1
    /\ egids' = <<>>
    /\ ei' = 1
    /\ etotal' = 0
    /\ new_prev' = <<>>
    /\ j' = 1

\* A value of PSN_NPSSO or PSN_ONLINE_ID: "" stands for a variable that is
\* unset or empty.
CredentialValues == {"", "value"}

\* A guard that lets the run go on when either credential is there.
RequireEitherCredential(npsso, online_id) == npsso # "" \/ online_id # ""

\* _require_env does not raise: if not NPSSO or not ONLINE_ID: raise SystemExit.
_require_env(npsso, online_id) == ~(npsso = "" \/ online_id = "")

\* The process starts with the two credentials of its environment and sync()
\* is entered: _require_env, then the current index is read.
StartRunWith(npsso, online_id, r) ==
    /\ pc \in StoppedPcs
    /\ NPSSO' = npsso
    /\ ONLINE_ID' = online_id
    /\ IF ~_require_env(npsso, online_id)
       THEN /\ pc' = "fatal"
            /\ refresh' = "changed"
            /\ prev_df' = <<>>
       ELSE /\ pc' = "list_titles"
            /\ refresh' = r
            /\ prev_df' = ReadIndex(titlesCsv)
    /\ titles' = <<>>
    /\ idx' = 1
    /\ rows' = <<>>
    /\ egids' = <<>>
    /\ ei' = 1
    /\ etotal' = 0
    /\ new_prev' = <<>>
    /\ refreshed' = 0
    /\ rewritten' = 0
    /\ skipped' = 0
    /\ j' = 1
    /\ stoppedAt' = "none"
    /\ oldIndex' = Absent
    /\ oldCache' = Absent
    /\ noUpdate' = [last |-> noUpdate.now, now |-> {}, cur |-> FALSE]
    /\ UNCHANGED <<remote, title_platform, changes, sameRemote, arg, status, faults, fileVars, wkVars,
                   inflight, titleTimer, intr>>

\* A run with any credentials and any policy (the policy plays no part in a
\* run that fails at _require_env).
StartRun ==
    \E npsso \in CredentialValues, online_id \in CredentialValues, r \in Policies :
        /\ ~_require_env(npsso, online_id) => r = "changed"
        /\ StartRunWith(npsso, online_id, r)

\* A run with the default policy.
StartRunChanged ==
    \E npsso \in CredentialValues, online_id \in CredentialValues :
        StartRunWith(npsso, online_id, "changed")

\* The provider's data changes between two runs.
RemoteChange ==
    /\ pc \in StoppedPcs
    /\ changes < MaxChanges
    /\ \E r \in RemoteStates \ {remote} : remote' = r
    /\ changes' = changes + 1
    /\ sameRemote' = FALSE
    /\ noUpdate' = [last |-> {}, now |-> {}, cur |-> FALSE]
    /\ UNCHANGED <<title_platform, arg, status, NPSSO, ONLINE_ID>>
    /\ UNCHANGED <<faults, fileVars, pc, refresh, p1Vars, p2Vars, wkVars,
                   inflight, titleTimer, intr, stoppedAt, oldIndex, oldCache>>

(* ----------------------------- titles pass ---------------------------- *)
\* titles = list(user.trophy_titles()): issued.
ListTitlesCall ==
    /\ StartCall("list_titles", "titles", FALSE)
    /\ UNCHANGED <<envVars, fileVars, pc, refresh, p1Vars, p2Vars, wkVars,
                   titleTimer, intr, stoppedAt, oldIndex, oldCache, noUpdate>>

\* It returns the list, or raises: nothing in sync catches that.
ListTitlesReturns ==
    /\ \E outcome \in {"ok", "fail"} :
         /\ Returns("list_titles", outcome)
         /\ IF outcome = "ok"
            THEN /\ titles' = RemoteTitleList(remote)
                 /\ pc' = "p1_title"
                 /\ UNCHANGED prev_df
            ELSE /\ titles' = <<>>
                 /\ pc' = "crashed"
                 /\ prev_df' = <<>>
    /\ UNCHANGED <<envVars, fileVars, refresh, idx, rows, egids, ei, etotal, p2Vars,
                   wkVars, titleTimer, intr, stoppedAt, oldIndex, oldCache, noUpdate>>

\* What the title summary object of t carries.
EarnedNow(t) == IF t = "A" THEN RemoteEarned(remote) ELSE 0

PercentNow(t) == IF t = "A" THEN RemotePercent(remote) ELSE 0

Primary(t) == _choose_primary_platform(PlatformSet(t))

TitleRow(t, total) ==
    [id |-> t, plat |-> _platform_label(Primary(t)), earned |-> EarnedNow(t),
     total |-> total, pct |-> PercentNow(t)]

\* A variant that takes an earned count of 0 for no previous row.
ReusedRowUnlessZero(t) ==
    LET cand == Matching(prev_df, t, _platform_label(Primary(t)))
    IN  IF cand # <<>> /\ cand[1].earned # 0
           /\ cand[1].earned = EarnedNow(t) /\ cand[1].pct = PercentNow(t)
        THEN <<cand[1]>> ELSE <<>>

\* A variant that looks the previous row up by the title's name.
ReusedRowByName(t) ==
    LET cand == Matching(prev_df, TitleName(t), _platform_label(Primary(t)))
    IN  IF cand # <<>> /\ cand[1].earned = EarnedNow(t) /\ cand[1].pct = PercentNow(t)
        THEN <<cand[1]>> ELSE <<>>

\* A titles pass that reuses no total: every title is recomputed.
ReusedRowNever(t) == <<>>

\* The previous row whose total is reused: the first row for (NPCommID,
\* label), if its earned count and percent are the ones now observed.
ReusedRow(t) ==
    LET cand == Matching(prev_df, t, _platform_label(Primary(t)))
    IN  IF cand # <<>> /\ cand[1].earned = EarnedNow(t) /\ cand[1].pct = PercentNow(t)
        THEN <<cand[1]>> ELSE <<>>

\* rows.append(...) and the loop moves to the next title.
AppendRow(t, total) ==
    /\ rows' = Append(rows, TitleRow(t, total))
    /\ idx' = idx + 1
    /\ pc' = "p1_title"

\* One iteration of the titles loop up to the first remote call, or the end
\* of the loop.
TitleStep ==
    /\ pc = "p1_title"
    /\ IF idx > Len(titles)
       THEN /\ pc' = "wt_open"
            /\ UNCHANGED <<idx, rows>>
       ELSE LET t == titles[idx] IN
            IF ReusedRow(t) # <<>> THEN AppendRow(t, ReusedRow(t)[1].total)
            ELSE IF Primary(t) # NoPlatform
            THEN /\ pc' = "p1_groups_total"
                 /\ UNCHANGED <<idx, rows>>
            ELSE AppendRow(t, 0)
    /\ UNCHANGED <<envVars, faults, fileVars, refresh, prev_df, titles, egids, ei,
                   etotal, p2Vars, wkVars, inflight, titleTimer, intr, stoppedAt,
                   oldIndex, oldCache, noUpdate>>

\* _groups_total: user.trophy_groups_summary is issued, with no deadline.
GroupsTotalCall ==
    /\ StartCall("p1_groups_total", "summary", FALSE)
    /\ UNCHANGED <<envVars, fileVars, pc, refresh, p1Vars, p2Vars, wkVars,
                   titleTimer, intr, stoppedAt, oldIndex, oldCache, noUpdate>>

\* _groups_total returns the defined total, or 0 when the call raised; on 0
\* sync goes on to _enumerate_and_count.
GroupsTotalReturns ==
    /\ \E outcome \in {"ok", "fail"} :
         /\ Returns("p1_groups_total", outcome)
         /\ LET total == IF outcome = "ok" THEN RemoteTotal(remote) ELSE 0 IN
            IF total # 0
            THEN AppendRow(titles[idx], total)
            ELSE /\ pc' = "p1_enum_ids"
                 /\ UNCHANGED <<idx, rows>>
    /\ UNCHANGED <<envVars, fileVars, refresh, prev_df, titles, egids, ei, etotal,
                   p2Vars, wkVars, titleTimer, intr, stoppedAt, oldIndex, oldCache, noUpdate>>

\* _enumerate_and_count: _group_ids issues the summary call, no deadline.
EnumIdsCall ==
    /\ StartCall("p1_enum_ids", "group_ids", FALSE)
    /\ UNCHANGED <<envVars, fileVars, pc, refresh, p1Vars, p2Vars, wkVars,
                   titleTimer, intr, stoppedAt, oldIndex, oldCache, noUpdate>>

OrList(s, dflt) == IF s # <<>> THEN s ELSE dflt

EnumIdsReturns ==
    /\ \E outcome \in {"ok", "fail"} :
         /\ Returns("p1_enum_ids", outcome)
         /\ egids' = OrList(IF outcome = "ok" THEN _group_ids(RemoteGroups(remote)) ELSE <<>>,
                            <<"all">>)
    /\ ei' = 1
    /\ etotal' = 0
    /\ pc' = "p1_enum_trophies"
    /\ UNCHANGED <<envVars, fileVars, refresh, prev_df, titles, idx, rows, p2Vars,
                   wkVars, titleTimer, intr, stoppedAt, oldIndex, oldCache, noUpdate>>

\* _enumerate_and_count: user.trophies for one group, no deadline.
EnumTrophiesCall ==
    /\ StartCall("p1_enum_trophies", "trophies", FALSE)
    /\ UNCHANGED <<envVars, fileVars, pc, refresh, p1Vars, p2Vars, wkVars,
                   titleTimer, intr, stoppedAt, oldIndex, oldCache, noUpdate>>

\* The group's count is added (nothing when the call raised); after the
\* last group the total is the title's total.
EnumTrophiesReturns ==
    /\ \E outcome \in {"ok", "fail"} :
         /\ Returns("p1_enum_trophies", outcome)
         /\ LET subtotal == IF outcome = "ok"
                            THEN Len(RemoteTrophies(remote, egids[ei])) ELSE 0
                total == etotal + subtotal
            IN  IF ei < Len(egids)
                THEN /\ etotal' = total
                     /\ ei' = ei + 1
                     /\ UNCHANGED <<pc, idx, rows, egids>>
                ELSE /\ AppendRow(titles[idx], total)
                     /\ etotal' = 0
                     /\ ei' = 1
                     /\ egids' = <<>>
    /\ UNCHANGED <<envVars, fileVars, refresh, prev_df, titles, p2Vars, wkVars,
                   titleTimer, intr, stoppedAt, oldIndex, oldCache, noUpdate>>

(* ---------------------------- _write_titles --------------------------- *)
\* tmp.open("w"): the temp file exists with no content yet.
WtOpenTmp ==
    /\ pc = "wt_open"
    /\ oldIndex' = titlesCsv
    /\ tmpCsv' = Truncated
    /\ pc' = "wt_write"
    /\ UNCHANGED <<envVars, faults, titlesCsv, prevCsv, cache, refresh, p1Vars,
                   p2Vars, wkVars, inflight, titleTimer, intr, stoppedAt, oldCache, noUpdate>>

\* A variant that writes the rows over the index itself.
WtWriteInPlace ==
    /\ pc = "wt_write"
    /\ titlesCsv' = FileOf(rows)
    /\ tmpCsv' = FileOf(rows)
    /\ pc' = "wt_backup"
    /\ UNCHANGED <<envVars, faults, prevCsv, cache, refresh, p1Vars, p2Vars, wkVars,
                   inflight, titleTimer, intr, stoppedAt, oldIndex, oldCache, noUpdate>>

\* The header and the rows are written and the temp file is closed.
WtWriteTmp ==
    /\ pc = "wt_write"
    /\ tmpCsv' = FileOf(rows)
    /\ pc' = "wt_backup"
    /\ UNCHANGED <<envVars, faults, titlesCsv, prevCsv, cache, refresh, p1Vars,
                   p2Vars, wkVars, inflight, titleTimer, intr, stoppedAt, oldIndex, oldCache, noUpdate>>

\* if TITLES_CSV.exists(): an existing backup is unlinked.
WtUnlinkBackup ==
    /\ pc = "wt_backup"
    /\ IF titlesCsv.ex
       THEN /\ prevCsv' = Absent
            /\ pc' = "wt_move"
       ELSE /\ pc' = "wt_rename"
            /\ UNCHANGED prevCsv
    /\ UNCHANGED <<envVars, faults, titlesCsv, tmpCsv, cache, refresh, p1Vars,
                   p2Vars, wkVars, inflight, titleTimer, intr, stoppedAt, oldIndex, oldCache, noUpdate>>

\* A variant that removes the current index without keeping it.
WtDropCurrent ==
    /\ pc = "wt_move"
    /\ titlesCsv' = Absent
    /\ pc' = "wt_rename"
    /\ UNCHANGED <<envVars, faults, prevCsv, tmpCsv, cache, refresh, p1Vars, p2Vars,
                   wkVars, inflight, titleTimer, intr, stoppedAt, oldIndex, oldCache, noUpdate>>

\* TITLES_CSV.replace(bak)
WtMoveCurrent ==
    /\ pc = "wt_move"
    /\ prevCsv' = titlesCsv
    /\ titlesCsv' = Absent
    /\ pc' = "wt_rename"
    /\ UNCHANGED <<envVars, faults, tmpCsv, cache, refresh, p1Vars, p2Vars, wkVars,
                   inflight, titleTimer, intr, stoppedAt, oldIndex, oldCache, noUpdate>>

\* tmp.replace(TITLES_CSV); the finally clause finds no temp file.
WtRenameTmp ==
    /\ pc = "wt_rename"
    /\ titlesCsv' = tmpCsv
    /\ tmpCsv' = Absent
    /\ pc' = "p2_begin"
    /\ sameRemote' = TRUE
    /\ UNCHANGED <<remote, title_platform, changes, arg, status, NPSSO, ONLINE_ID, faults, prevCsv,
                   cache, refresh, p1Vars, p2Vars, wkVars, inflight, titleTimer, intr,
                   stoppedAt, oldIndex, oldCache, noUpdate>>

(* ---------------------------- trophies pass --------------------------- *)
\* new_prev is read from the backup path; the counts start at 0.
ReadBackup ==
    /\ pc = "p2_begin"
    /\ new_prev' = ReadIndex(prevCsv)
    /\ refreshed' = 0
    /\ skipped' = 0
    /\ j' = 1
    /\ pc' = "p2_title"
    /\ UNCHANGED <<envVars, faults, fileVars, refresh, p1Vars, rewritten, wkVars,
                   inflight, titleTimer, intr, stoppedAt, oldIndex, oldCache, noUpdate>>

\* A variant that lets the policy `none` through to the detector's default.
NeedThoughNone(r) ==
    refresh = "changed" => _should_refresh_cache(new_prev, r, cache[r.id])

\* A variant that asks the detector under the policy `all` too.
NeedAllAsChanged(r) ==
    /\ refresh # "none"
    /\ _should_refresh_cache(new_prev, r, cache[r.id])

\* A variant that never asks the detector.
NeedChangedAsAll(r) == refresh # "none"

\* Whether the loop refreshes the title of row r.
Need(r) ==
    /\ refresh # "none"
    /\ refresh = "changed" => _should_refresh_cache(new_prev, r, cache[r.id])

\* The loop refreshes the title of row r under `changed` on the second
\* rule of _should_refresh_cache: its cache is complete and a counter of its
\* previous row differs.
OnChangedCounters(r) ==
    /\ refresh = "changed"
    /\ _cache_status(cache[r.id], r.total, r.earned) = "complete"
    /\ Matching(new_prev, r.id, r.plat) # <<>>
    /\ _should_refresh_cache(new_prev, r, cache[r.id])

\* One iteration of the trophies loop up to the submit of _do_cache, or the
\* end of the loop, where sync returns its summary.
RefreshStep ==
    /\ pc = "p2_title"
    /\ IF j > Len(rows)
       THEN /\ pc' = "done"
            /\ prev_df' = <<>>
            /\ titles' = <<>>
            /\ idx' = 1
            /\ new_prev' = <<>>
            /\ j' = 1
            /\ UNCHANGED <<skipped, titleTimer, noUpdate>>
       ELSE IF Need(rows[j])
       THEN /\ pc' = "c_begin"
            /\ titleTimer' = "armed"
            /\ noUpdate' = [noUpdate EXCEPT !.cur = OnChangedCounters(rows[j])]
            /\ UNCHANGED <<skipped, j, prev_df, titles, idx, new_prev>>
       ELSE /\ skipped' = skipped + 1
            /\ j' = j + 1
            /\ UNCHANGED <<pc, titleTimer, prev_df, titles, idx, new_prev, noUpdate>>
    /\ UNCHANGED <<envVars, faults, fileVars, refresh, rows, egids, ei, etotal,
                   refreshed, rewritten, wkVars, inflight, intr, stoppedAt, oldIndex,
                   oldCache>>

\* fut.result(timeout=title_timeout) fires while _do_cache is running.  The
\* with-block is left through ex.shutdown(wait=True): the main thread stays
\* in the join until _do_cache ends.
TitleTimerFires ==
    /\ pc \in WorkerPcs
    /\ titleTimer = "armed"
    /\ faults < MaxFaults
    /\ faults' = faults + 1
    /\ titleTimer' = "expired"
    /\ UNCHANGED <<envVars, fileVars, pc, refresh, p1Vars, p2Vars, wkVars, inflight,
                   intr, stoppedAt, oldIndex, oldCache, noUpdate>>

\* _do_cache has ended: n is its result, or 0 if the deadline passed; the
\* loop moves on, unless a KeyboardInterrupt is pending.
TitleResult ==
    /\ pc = "p2_result"
    /\ titleTimer' = "off"
    /\ n' = 0
    /\ trows' = <<>>
    /\ intr' = FALSE
    /\ IF intr
       THEN /\ pc' = "interrupted"
            /\ stoppedAt' = "p2_result"
            /\ ProcessEnds
            /\ UNCHANGED <<refreshed, rewritten, rows, skipped, noUpdate>>
       ELSE /\ pc' = "p2_title"
            /\ LET got == IF titleTimer = "expired" THEN 0 ELSE n IN
               /\ refreshed' = IF got # 0 THEN refreshed + 1 ELSE refreshed
               /\ noUpdate' = [noUpdate EXCEPT
                                  !.now = IF noUpdate.cur /\ got = 0
                                          THEN @ \cup {rows[j].id} ELSE @ \ {rows[j].id},
                                  !.cur = FALSE]
            /\ j' = j + 1
            /\ UNCHANGED <<p1Vars, new_prev, skipped, rewritten, stoppedAt>>
    /\ oldCache' = Absent
    /\ UNCHANGED <<envVars, faults, fileVars, refresh, gmap, gids, gi, inflight,
                   oldIndex>>

(* ------------------------- _cache_trophies_for ------------------------ *)
\* sync's max_groups, at its default.
max_groups == 50

\* The title being refreshed.
CurTitle == rows[j].id

\* The procedure returns n without writing.
ReturnN(k) ==
    /\ n' = k
    /\ pc' = "p2_result"
    /\ gmap' = <<>>
    /\ gids' = <<>>
    /\ gi' = 1

\* plat = _platform_from_label(plat_label); if not plat: return 0.
\* Otherwise _group_name_map_with_timeout submits the summary call.
CacheBegin ==
    /\ pc = "c_begin"
    /\ IF _platform_from_label(rows[j].plat) = NoPlatform
       THEN /\ ReturnN(0)
            /\ trows' = <<>>
       ELSE /\ pc' = "c_summary"
            /\ trows' = <<>>
            /\ UNCHANGED <<gmap, gids, gi, n>>
    /\ UNCHANGED <<envVars, faults, fileVars, refresh, p1Vars, p2Vars, inflight,
                   titleTimer, intr, stoppedAt, oldIndex, oldCache, noUpdate>>

SummaryCall ==
    /\ StartCall("c_summary", "summary", TRUE)
    /\ UNCHANGED <<envVars, fileVars, pc, refresh, p1Vars, p2Vars, wkVars,
                   titleTimer, intr, stoppedAt, oldIndex, oldCache, noUpdate>>

\* A with-block left without waiting for the worker (shutdown(wait=False)):
\* at the deadline of a group's listing the caller goes on to the retry and
\* the call stays behind.
CallTimerFiresNoJoin ==
    /\ pc = "c_group"
    /\ \E c \in inflight :
         /\ c.timed /\ ~c.expired
         /\ inflight' = (inflight \ {c}) \cup {[c EXCEPT !.expired = TRUE, !.joined = FALSE]}
    /\ faults < MaxFaults
    /\ faults' = faults + 1
    /\ pc' = "c_retry"
    /\ UNCHANGED <<envVars, fileVars, refresh, p1Vars, p2Vars, wkVars,
                   titleTimer, intr, stoppedAt, oldIndex, oldCache, noUpdate>>

\* The deadline of the bounded call in execution passes: fut.result raises
\* the timeout, and leaving the with-block joins the worker, so the caller
\* stays where it is until the call ends.
CallTimerFires ==
    /\ pc \in {"c_summary", "c_group", "c_retry"}
    /\ \E c \in inflight :
         /\ c.timed /\ ~c.expired
         /\ inflight' = (inflight \ {c}) \cup {[c EXCEPT !.expired = TRUE]}
    /\ faults < MaxFaults
    /\ faults' = faults + 1
    /\ UNCHANGED <<envVars, fileVars, pc, refresh, p1Vars, p2Vars, wkVars,
                   titleTimer, intr, stoppedAt, oldIndex, oldCache, noUpdate>>

\* gids as the loop over the groups uses them.
GroupList(ids) == CapGroups(Uniq(ids), max_groups)

\* The summary call ends.  gmap is the name map, or {} when the call raised
\* or its deadline had passed.  With an empty map the ids are enumerated.
SummaryReturns ==
    /\ \E outcome \in {"ok", "fail"} :
         /\ Returns("c_summary", outcome)
         /\ LET m == IF Seen(outcome) = "ok"
                     THEN _group_name_map(RemoteGroups(remote), TitleName(CurTitle))
                     ELSE <<>>
            IN  /\ gmap' = m
                /\ IF m # <<>>
                   THEN /\ gids' = GroupList([i \in 1..Len(m) |-> m[i].gid])
                        /\ pc' = "c_group"
                   ELSE /\ gids' = <<>>
                        /\ pc' = "c_group_ids"
    /\ gi' = 1
    /\ UNCHANGED <<envVars, fileVars, refresh, p1Vars, p2Vars, trows, n, titleTimer,
                   intr, stoppedAt, oldIndex, oldCache, noUpdate>>

\* gids = list(_group_ids(...)) or ["default"]: the summary call is issued
\* from the procedure's own thread, with no deadline of its own.
GroupIdsCall ==
    /\ StartCall("c_group_ids", "group_ids", FALSE)
    /\ UNCHANGED <<envVars, fileVars, pc, refresh, p1Vars, p2Vars, wkVars,
                   titleTimer, intr, stoppedAt, oldIndex, oldCache, noUpdate>>

\* A procedure that goes from an empty map straight to the group `default`.
GroupIdsReturnsDefaultOnly ==
    /\ \E outcome \in {"ok", "fail"} : Returns("c_group_ids", outcome)
    /\ gids' = <<"default">>
    /\ gi' = 1
    /\ pc' = "c_group"
    /\ UNCHANGED <<envVars, fileVars, refresh, p1Vars, p2Vars, gmap, trows, n,
                   titleTimer, intr, stoppedAt, oldIndex, oldCache, noUpdate>>

GroupIdsReturns ==
    /\ \E outcome \in {"ok", "fail"} :
         /\ Returns("c_group_ids", outcome)
         /\ gids' = GroupList(OrList(IF outcome = "ok"
                                     THEN _group_ids(RemoteGroups(remote)) ELSE <<>>,
                                     <<"default">>))
    /\ gi' = 1
    /\ pc' = "c_group"
    /\ UNCHANGED <<envVars, fileVars, refresh, p1Vars, p2Vars, gmap, trows, n,
                   titleTimer, intr, stoppedAt, oldIndex, oldCache, noUpdate>>

\* _list_trophies_with_timeout(gid, group_timeout) submits the call.
GroupCall ==
    /\ StartCall("c_group", "trophies", TRUE)
    /\ UNCHANGED <<envVars, fileVars, pc, refresh, p1Vars, p2Vars, wkVars,
                   titleTimer, intr, stoppedAt, oldIndex, oldCache, noUpdate>>

\* A procedure that opens the file after the last group whether or not
\* there are rows.
GroupDoneAlwaysOpens(items) ==
    LET gid == gids[gi]
        rs == AddItems(trows, items, gid, GroupNameFor(gmap, gid, TitleName(CurTitle)))
    IN  /\ trows' = rs
        /\ IF gi < Len(gids)
           THEN /\ gi' = gi + 1
                /\ pc' = "c_group"
                /\ UNCHANGED <<gmap, gids, n>>
           ELSE /\ pc' = "c_open"
                /\ UNCHANGED <<gmap, gids, gi, n>>

\* The group's items are turned into rows and the loop moves to the next
\* group; after the last group the file is written if there are rows.
GroupDone(items) ==
    LET gid == gids[gi]
        rs == AddItems(trows, items, gid, GroupNameFor(gmap, gid, TitleName(CurTitle)))
    IN  /\ trows' = rs
        /\ IF gi < Len(gids)
           THEN /\ gi' = gi + 1
                /\ pc' = "c_group"
                /\ UNCHANGED <<gmap, gids, n>>
           ELSE IF rs # <<>>
           THEN /\ pc' = "c_open"
                /\ UNCHANGED <<gmap, gids, gi, n>>
           ELSE ReturnN(0)

\* The call ends.  Its items on success, none when it raised; when the
\* deadline had passed the fetch is tried once more.
GroupReturns ==
    /\ \E outcome \in {"ok", "fail"} :
         /\ Returns("c_group", outcome)
         /\ IF Seen(outcome) = "timeout"
            THEN /\ pc' = "c_retry"
                 /\ UNCHANGED wkVars
            ELSE GroupDone(IF outcome = "ok" THEN RemoteTrophies(remote, gids[gi]) ELSE <<>>)
    /\ UNCHANGED <<envVars, fileVars, refresh, p1Vars, p2Vars, titleTimer, intr,
                   stoppedAt, oldIndex, oldCache, noUpdate>>

\* The retry: _list_trophies_with_timeout(gid, max(3.0, group_timeout / 2)).
RetryCall ==
    /\ StartCall("c_retry", "trophies", TRUE)
    /\ UNCHANGED <<envVars, fileVars, pc, refresh, p1Vars, p2Vars, wkVars,
                   titleTimer, intr, stoppedAt, oldIndex, oldCache, noUpdate>>

\* except Exception: items = [] covers the retry's timeout and its errors.
RetryReturns ==
    /\ \E outcome \in {"ok", "fail"} :
         /\ Returns("c_retry", outcome)
         /\ GroupDone(IF Seen(outcome) = "ok" THEN RemoteTrophies(remote, gids[gi]) ELSE <<>>)
    /\ UNCHANGED <<envVars, fileVars, refresh, p1Vars, p2Vars, titleTimer, intr,
                   stoppedAt, oldIndex, oldCache, noUpdate>>

\* out.open("w"): the cache file is truncated in place.
CacheOpen ==
    /\ pc = "c_open"
    /\ oldCache' = cache[CurTitle]
    /\ cache' = [cache EXCEPT ![CurTitle] = Truncated]
    /\ pc' = "c_write"
    /\ UNCHANGED <<envVars, faults, titlesCsv, prevCsv, tmpCsv, refresh, p1Vars,
                   p2Vars, wkVars, inflight, titleTimer, intr, stoppedAt, oldIndex,
                   noUpdate>>

\* A write that keeps the rows the file had and adds the new ones.
CacheWriteMerged ==
    /\ pc = "c_write"
    /\ cache' = [cache EXCEPT ![CurTitle] = FileOf(oldCache.rows \o trows)]
    /\ ReturnN(Len(trows))
    /\ rewritten' = rewritten + 1
    /\ UNCHANGED trows
    /\ UNCHANGED <<envVars, faults, titlesCsv, prevCsv, tmpCsv, refresh, p1Vars,
                   new_prev, refreshed, skipped, j, inflight, titleTimer, intr,
                   stoppedAt, oldIndex, oldCache, noUpdate>>

\* writeheader, writerows: the rows reach the file one after the other (the
\* header with the first); with the last row the file is closed and the
\* procedure returns len(rows).
CacheWriteRow ==
    /\ pc = "c_write"
    /\ LET f == cache[CurTitle]
           k == Len(f.rows) + 1
       IN  /\ cache' = [cache EXCEPT ![CurTitle] = FileOf(Append(f.rows, trows[k]))]
           /\ IF k < Len(trows)
              THEN UNCHANGED <<pc, wkVars, rewritten>>
              ELSE /\ ReturnN(Len(trows))
                   /\ rewritten' = rewritten + 1
                   /\ UNCHANGED trows
    /\ UNCHANGED <<envVars, faults, titlesCsv, prevCsv, tmpCsv, refresh, p1Vars,
                   new_prev, refreshed, skipped, j, inflight, titleTimer, intr,
                   stoppedAt, oldIndex, oldCache, noUpdate>>

(* ------------------------------ interrupt ----------------------------- *)
\* KeyboardInterrupt in the main thread.  Outside the per-title worker it
\* ends the run where it is: a remote call of the main thread is given up,
\* and _write_titles' finally clause unlinks the temp file.  While
\* _do_cache runs on the worker, the main thread first leaves the with-block,
\* which joins the worker.
Interrupt ==
    /\ pc \notin StoppedPcs
    /\ ~intr
    /\ faults < MaxFaults
    /\ faults' = faults + 1
    /\ IF pc \in WorkerPcs \cup {"p2_result"}
       THEN /\ intr' = TRUE
            /\ UNCHANGED <<pc, inflight, tmpCsv, stoppedAt, p1Vars, p2Vars>>
       ELSE /\ pc' = "interrupted"
            /\ stoppedAt' = pc
            /\ inflight' = {}
            /\ tmpCsv' = Absent
            /\ ProcessEnds
            /\ UNCHANGED <<intr, rows, refreshed, rewritten, skipped>>
    /\ UNCHANGED <<envVars, titlesCsv, prevCsv, cache, refresh, wkVars, titleTimer,
                   oldIndex, oldCache, noUpdate>>

(* --------------------------- specification ---------------------------- *)
\* The steps of the program itself.
Step ==
    \/ ListTitlesCall \/ ListTitlesReturns
    \/ TitleStep
    \/ GroupsTotalCall \/ GroupsTotalReturns
    \/ EnumIdsCall \/ EnumIdsReturns
    \/ EnumTrophiesCall \/ EnumTrophiesReturns
    \/ WtOpenTmp \/ WtWriteTmp \/ WtUnlinkBackup \/ WtMoveCurrent \/ WtRenameTmp
    \/ ReadBackup \/ RefreshStep \/ TitleResult
    \/ CacheBegin
    \/ SummaryCall \/ SummaryReturns
    \/ GroupIdsCall \/ GroupIdsReturns
    \/ GroupCall \/ GroupReturns
    \/ RetryCall \/ RetryReturns
    \/ CacheOpen \/ CacheWriteRow

\* The timers and the environment.
Env == TitleTimerFires \/ CallTimerFires \/ Interrupt \/ RemoteChange \/ StartRun

Next == Step \/ Env

Spec == Init /\ [][Next]_vars

\* The program's steps are taken as long as one is possible.  The timers,
\* interrupts, remote changes and new runs are under no obligation.
FairSpec == Spec /\ WF_vars(Step)

\* Repeated runs with the default policy against a provider whose data
\* stays as it is.
FixedNext == Step \/ TitleTimerFires \/ CallTimerFires \/ Interrupt \/ StartRunChanged

FixedSpec == Init /\ [][FixedNext]_vars /\ WF_vars(Step)

\* Platform sets of "B": none, or one platform outside the preference
\* order (PlatformType.PSPC).
TitlePlatforms == {{}, {"PSPC"}}

\* The program against an account whose title "B" has either platform set.
LabelInit == StartState /\ title_platform \in TitlePlatforms /\ arg = NoArg

LabelSpec == LabelInit /\ [][Next]_vars

(* ----------------------- the classifier on its own -------------------- *)
\* _cache_status called on any small cache file, whoever wrote it.  A cell
\* of the Earned column is "True", "False" or empty; a group name is a
\* name, whitespace or empty.
CellEarned == {"True", "False", ""}

CellGroupName == {"Alpha", " ", ""}

CacheRowValues == [gid : {"default"}, gname : CellGroupName, tid : 0..1, earned : CellEarned]

RowSeqs == UNION {[1..k -> CacheRowValues] : k \in 0..MaxRows}

CacheFiles == {Absent, Truncated} \cup {FileOf(rs) : rs \in RowSeqs}

ClassifierArgs ==
    [file : CacheFiles, expected_total : 0..(MaxRows + 1), expected_earned : 0..1]

ClassifyInit ==
    /\ ProgramInit
    /\ remote = [listed |-> FALSE, dlc |-> FALSE, earned |-> 0]
    /\ arg \in ClassifierArgs

\* status = _cache_status(npcomm, plat_label, expected_total, expected_earned)
Classify ==
    /\ status = "none"
    /\ status' = _cache_status(arg.file, arg.expected_total, arg.expected_earned)
    /\ UNCHANGED <<remote, title_platform, changes, sameRemote, arg, NPSSO, ONLINE_ID, faults, fileVars,
                   pc, refresh, p1Vars, p2Vars, wkVars, inflight, titleTimer, intr,
                   stoppedAt, oldIndex, oldCache, noUpdate>>

ClassifyNext == Classify

ClassifySpec == ClassifyInit /\ [][ClassifyNext]_vars

(* ------------------------ the retry's timeout ------------------------- *)
\* Timeouts are counted in ticks of 50 ms, so that half of a timeout given
\* in tenths of a second is a whole number of ticks.
Seconds(s) == 20 * s

Max(a, b) == IF a >= b THEN a ELSE b

\* A retry that waits half of the group timeout, whatever it is.
RetryTimeoutHalf(group_timeout) == group_timeout \div 2

\* The retry's timeout: max(3.0, group_timeout / 2).
RetryTimeout(group_timeout) == Max(Seconds(3), group_timeout \div 2)

\* --group-timeout: 0.0, 0.1, ... seconds, in ticks.
GroupTimeouts == {2 * k : k \in 0..MaxGroupTimeout}

TimeoutInit ==
    /\ ProgramInit
    /\ remote = [listed |-> FALSE, dlc |-> FALSE, earned |-> 0]
    /\ arg \in [group_timeout : GroupTimeouts, first : {0}, retry : {0}]

\* The timeouts of the two attempts at one group's listing:
\* timeout=group_timeout, then timeout=max(3.0, group_timeout / 2).
GroupAttempts ==
    /\ status = "none"
    /\ status' = "returned"
    /\ arg' = [arg EXCEPT !.first = arg.group_timeout,
                          !.retry = RetryTimeout(arg.group_timeout)]
    /\ UNCHANGED <<remote, title_platform, changes, sameRemote, NPSSO, ONLINE_ID, faults, fileVars,
                   pc, refresh, p1Vars, p2Vars, wkVars, inflight, titleTimer, intr,
                   stoppedAt, oldIndex, oldCache, noUpdate>>

TimeoutNext == GroupAttempts

TimeoutSpec == TimeoutInit /\ [][TimeoutNext]_vars

(* ----------------------- a group's name on its own -------------------- *)
\* The GroupName of the rows of one group, for any title name, group id and
\* remote group name, with the group summary at hand or not.
GroupIdValues == BaseGroupIds \cup {"001"}

RemoteNames == {"", " ", "DLC"}

TitleNames == {"", "Alpha", "Beta"}

NameArgs ==
    [gid : GroupIdValues, name : RemoteNames, title : TitleNames, summary : BOOLEAN,
     group_name : {""}]

NameInit ==
    /\ ProgramInit
    /\ remote = [listed |-> FALSE, dlc |-> FALSE, earned |-> 0]
    /\ arg \in NameArgs

\* gmap = _group_name_map_with_timeout(...), {} when the summary failed or
\* timed out; group_name = gmap.get(gid) or (title if gid in (...) else gid).
NameGroup ==
    /\ status = "none"
    /\ status' = "returned"
    /\ LET m == IF arg.summary
                 THEN _group_name_map(<<[gid |-> arg.gid, name |-> arg.name]>>, arg.title)
                 ELSE <<>>
       IN  arg' = [arg EXCEPT !.group_name = GroupNameFor(m, arg.gid, arg.title)]
    /\ UNCHANGED <<remote, title_platform, changes, sameRemote, NPSSO, ONLINE_ID, faults, fileVars,
                   pc, refresh, p1Vars, p2Vars, wkVars, inflight, titleTimer, intr,
                   stoppedAt, oldIndex, oldCache, noUpdate>>

NameNext == NameGroup

NameSpec == NameInit /\ [][NameNext]_vars

(* ----------------------- the group cap on its own --------------------- *)
\* The groups of one title refresh for any resolved id list (repeats
\* included) and any --max-groups.
ResolvedIds == UNION {[1..k -> {"default", "001", "002"}] : k \in 0..MaxGroupIds}

MaxGroupsValues == (-1)..(MaxGroupIds + 1)

CapInit ==
    /\ ProgramInit
    /\ remote = [listed |-> FALSE, dlc |-> FALSE, earned |-> 0]
    /\ arg \in [ids : ResolvedIds, max_groups : MaxGroupsValues, requested : {<<>>}]

\* "de-dup keep order", the cap, and the loop `for gi, gid in enumerate(gids)`
\* that asks for one listing per remaining id.
CapAndList ==
    /\ status = "none"
    /\ status' = "returned"
    /\ arg' = [arg EXCEPT !.requested = CapGroups(Uniq(arg.ids), arg.max_groups)]
    /\ UNCHANGED <<remote, title_platform, changes, sameRemote, NPSSO, ONLINE_ID, faults, fileVars,
                   pc, refresh, p1Vars, p2Vars, wkVars, inflight, titleTimer, intr,
                   stoppedAt, oldIndex, oldCache, noUpdate>>

CapNext == CapAndList

CapSpec == CapInit /\ [][CapNext]_vars

(* -------------------- the primary platform on its own ----------------- *)
\* PlatformType values a title's platform set may hold: the four of the
\* preference order and two others.
Platforms == {"PS5", "PS4", "PS3", "PSVITA", "PSPC", "UNKNOWN"}

\* A choice that looks for PS4 before PS5.
PrimaryChoicesPS4First(p_set) ==
    IF p_set = {} THEN {NoPlatform}
    ELSE IF "PS4" \in p_set THEN {"PS4"}
    ELSE IF FirstPreferred(p_set, 1) # NoPlatform THEN {FirstPreferred(p_set, 1)}
    ELSE p_set

\* What _choose_primary_platform may return: next(iter(p_set)) is whichever
\* element the frozenset's hash order puts first.
PrimaryChoices(p_set) ==
    IF p_set = {} THEN {NoPlatform}
    ELSE IF FirstPreferred(p_set, 1) # NoPlatform THEN {FirstPreferred(p_set, 1)}
    ELSE p_set

\* choose_primary_platform of update_from_psn_titles_v21.py: the empty set
\* is answered first, then the same loop and fallback.
PrimaryChoicesV21(p_set) ==
    IF p_set = {} THEN {NoPlatform}
    ELSE LET hits == {i \in 1..Len(PreferenceOrder) : PreferenceOrder[i] \in p_set}
         IN  IF hits # {}
             THEN {PreferenceOrder[CHOOSE i \in hits : \A k \in hits : i <= k]}
             ELSE p_set

PlatformInit ==
    /\ ProgramInit
    /\ remote = [listed |-> FALSE, dlc |-> FALSE, earned |-> 0]
    /\ arg \in [p_set : SUBSET Platforms, primary : {NoPlatform}, primary_v21 : {NoPlatform}]

\* primary = _choose_primary_platform(pset), and the same by the v21 script.
ChoosePrimary ==
    /\ status = "none"
    /\ status' = "returned"
    /\ \E p \in PrimaryChoices(arg.p_set), q \in PrimaryChoicesV21(arg.p_set) :
         arg' = [arg EXCEPT !.primary = p, !.primary_v21 = q]
    /\ UNCHANGED <<remote, title_platform, changes, sameRemote, NPSSO, ONLINE_ID, faults, fileVars,
                   pc, refresh, p1Vars, p2Vars, wkVars, inflight, titleTimer, intr,
                   stoppedAt, oldIndex, oldCache, noUpdate>>

PlatformNext == ChoosePrimary

PlatformSpec == PlatformInit /\ [][PlatformNext]_vars

(* ------------------- the trophy-count aggregate on its own ------------ *)
\* A raw aggregate: None, an object with attributes, a dict, or a value
\* with neither (a number, a string).  A field is absent, None, a text that
\* is not a number, or an integer.
GradeKeys == {"bronze", "silver", "gold", "platinum"}

FieldKeys == GradeKeys \cup {"extra"}

FieldValues ==
    {[t |-> "absent", v |-> 0], [t |-> "none", v |-> 0], [t |-> "text", v |-> 0]}
        \cup {[t |-> "int", v |-> k] : k \in 0..MaxCount}

Aggregates ==
    {[shape |-> "none", f |-> [k \in FieldKeys |-> [t |-> "absent", v |-> 0]]],
     [shape |-> "other", f |-> [k \in FieldKeys |-> [t |-> "absent", v |-> 0]]]}
        \cup [shape : {"object", "dict"}, f : [FieldKeys -> FieldValues]]

\* sum(v for v in values if isinstance(v, int)), over the fields of keys.
RECURSIVE IntSum(_, _)
IntSum(f, keys) ==
    IF keys = {} THEN 0
    ELSE LET k == CHOOSE x \in keys : TRUE
         IN  (IF f[k].t = "int" THEN f[k].v ELSE 0) + IntSum(f, keys \ {k})

Returned(v) == [raised |-> FALSE, value |-> v]

Raised == [raised |-> TRUE, value |-> 0]

\* _sum_trophyset_like of sync_psn.py.  With a grade attribute:
\* sum(int(getattr(obj, k, 0) or 0)): None counts 0 and int() of a text
\* that is not a number raises ValueError.  A dict: every integer value.
\* Else the integer values of __dict__.
_sum_trophyset_like(obj) ==
    IF obj.shape \in {"none", "other"} THEN Returned(0)
    ELSE IF obj.shape = "object" /\ \E k \in GradeKeys : obj.f[k].t # "absent"
    THEN IF \E k \in GradeKeys : obj.f[k].t = "text"
         THEN Raised
         ELSE Returned(IntSum(obj.f, GradeKeys))
    ELSE Returned(IntSum(obj.f, FieldKeys))

\* _sum_trophyset_like of update_from_psn_titles_v21.py: isinstance(v, int)
\* before every addition, and for a dict the grade keys first, every
\* integer value only when they sum to 0.
SumTrophysetLikeV21(obj) ==
    IF obj.shape \in {"none", "other"} THEN Returned(0)
    ELSE IF obj.shape = "object" /\ \E k \in GradeKeys : obj.f[k].t # "absent"
    THEN Returned(IntSum(obj.f, GradeKeys))
    ELSE IF obj.shape = "dict" /\ IntSum(obj.f, GradeKeys) # 0
    THEN Returned(IntSum(obj.f, GradeKeys))
    ELSE Returned(IntSum(obj.f, FieldKeys))

SumInit ==
    /\ ProgramInit
    /\ remote = [listed |-> FALSE, dlc |-> FALSE, earned |-> 0]
    /\ arg \in [obj : Aggregates, total : {Returned(0)}, total_v21 : {Returned(0)}]

\* t = _sum_trophyset_like(obj), by either script.
SumAggregate ==
    /\ status = "none"
    /\ status' = "returned"
    /\ arg' = [arg EXCEPT !.total = _sum_trophyset_like(arg.obj),
                          !.total_v21 = SumTrophysetLikeV21(arg.obj)]
    /\ UNCHANGED <<remote, title_platform, changes, sameRemote, NPSSO, ONLINE_ID, faults, fileVars,
                   pc, refresh, p1Vars, p2Vars, wkVars, inflight, titleTimer, intr,
                   stoppedAt, oldIndex, oldCache, noUpdate>>

SumNext == SumAggregate

SumSpec == SumInit /\ [][SumNext]_vars

(* ----------------------------- price watch ---------------------------- *)
\* fetch_prices.py and diff_report.py, run one after the other with no live
\* price credentials, on a watchlist that stays as it is.  arg holds the
\* three files and the change counts of the reports so far; status is the
\* script that ran last.
MaxItems == 2

MaxReports == 2

\* Titles of a watchlist item: two that differ in case only, one with a
\* leading blank, and none.
WatchTitles == {"Halo", "HALO", " Doom", ""}

\* str.strip() on a title.
StripTitle(t) == IF t = " Doom" THEN "Doom" ELSE t

\* str.lower() on a stripped title.
Lower(t) ==
    CASE t = "Halo" -> "halo"
      [] t = "HALO" -> "halo"
      [] t = "Doom" -> "doom"
      [] OTHER      -> t

\* The place of a lower-cased title in the order of strings.
Rank(k) == IF k = "doom" THEN 1 ELSE 2

\* int(md5(title).hexdigest(), 16) modulo 3765 = 251 * 15, on which the
\* mock price depends.
Md5Mod(title) ==
    CASE title = "Halo" -> 2643
      [] title = "HALO" -> 2205
      [] title = "Doom" -> 48

mock_price_for(title) ==
    LET h == Md5Mod(title)
    IN  [price |-> 99 + (h % 251),
         discount_pct |-> IF h % 3 # 0 THEN 0 ELSE 10 * ((h \div 3) % 5)]

\* fetch_live with PLAT_API_URL or PLAT_KEY unset.
fetch_live(title) == mock_price_for(title)

Item(title, p) == [title |-> title, price |-> p.price, discount_pct |-> p.discount_pct]

\* The loop of fetch_prices.main: items with an empty title are left out.
RECURSIVE Fetched(_)
Fetched(items) ==
    IF items = <<>> THEN <<>>
    ELSE LET title == StripTitle(Head(items))
         IN  IF title = "" THEN Fetched(Tail(items))
             ELSE <<Item(title, fetch_live(title))>> \o Fetched(Tail(items))

\* One item put in its place in a list sorted by title.lower(), after the
\* items of equal key.
RECURSIVE Insert(_, _)
Insert(sorted, it) ==
    IF sorted = <<>> THEN <<it>>
    ELSE IF Rank(Lower(Head(sorted).title)) <= Rank(Lower(it.title))
    THEN <<Head(sorted)>> \o Insert(Tail(sorted), it)
    ELSE <<it>> \o sorted

\* sorted(out, key=lambda x: x["title"].lower())
RECURSIVE SortedByTitle(_)
SortedByTitle(out) ==
    IF out = <<>> THEN <<>>
    ELSE Insert(SortedByTitle(SubSeq(out, 1, Len(out) - 1)), out[Len(out)])

\* A JSON file of the reports directory.
NoFile == [ex |-> FALSE, items |-> <<>>]

JsonFile(items) == [ex |-> TRUE, items |-> items]

\* A snapshot left by an earlier watchlist or an earlier price.
StaleFile == JsonFile(<<[title |-> "Doom", price |-> 100, discount_pct |-> 0]>>)

\* load(path)["items"]
load(f) == IF f.ex THEN f.items ELSE <<>>

\* keymap(items): the keys, and the item of a key (the last one of it).
KeyOf(it) == Lower(StripTitle(it.title))

Keys(items) == {KeyOf(items[i]) : i \in {k \in 1..Len(items) : items[k].title # ""}}

keymap(items, key) ==
    LET at == {i \in 1..Len(items) : items[i].title # "" /\ KeyOf(items[i]) = key}
    IN  items[CHOOSE i \in at : \A k \in at : k <= i]

\* The change list of diff_report.main: the keys of the current snapshot
\* that are new or whose price or discount differs.
Changes(cur, prev) ==
    {key \in Keys(cur) :
        \/ key \notin Keys(prev)
        \/ keymap(prev, key).price # keymap(cur, key).price
        \/ keymap(prev, key).discount_pct # keymap(cur, key).discount_pct}

\* Sequences of at most MaxItems titles.
TitleLists == UNION {[1..k -> WatchTitles] : k \in 0..MaxItems}

Watchlists == {NoFile} \cup {JsonFile(l) : l \in TitleLists}

PriceInit ==
    /\ ProgramInit
    /\ remote = [listed |-> FALSE, dlc |-> FALSE, earned |-> 0]
    /\ arg \in [watchlist : Watchlists, cur : {NoFile, StaleFile},
                prev : {NoFile, StaleFile}, reports : {<<>>}]

\* fetch_prices.main: exit 1 without a watchlist; otherwise the current
\* snapshot is written.
FetchPrices ==
    /\ status \in {"none", "reported"}
    /\ Len(arg.reports) < MaxReports
    /\ status' = "fetched"
    /\ arg' = [arg EXCEPT !.cur = IF arg.watchlist.ex
                                  THEN JsonFile(SortedByTitle(Fetched(arg.watchlist.items)))
                                  ELSE @]
    /\ UNCHANGED <<remote, title_platform, changes, sameRemote, NPSSO, ONLINE_ID, faults, fileVars,
                   pc, refresh, p1Vars, p2Vars, wkVars, inflight, titleTimer, intr,
                   stoppedAt, oldIndex, oldCache, noUpdate>>

\* A report that leaves the previous snapshot as it is.
DiffReportNoRoll ==
    /\ status = "fetched"
    /\ status' = "reported"
    /\ arg' = [arg EXCEPT !.reports = Append(@, Cardinality(Changes(load(arg.cur), load(arg.prev))))]
    /\ UNCHANGED <<remote, title_platform, changes, sameRemote, NPSSO, ONLINE_ID, faults, fileVars,
                   pc, refresh, p1Vars, p2Vars, wkVars, inflight, titleTimer, intr,
                   stoppedAt, oldIndex, oldCache, noUpdate>>

\* diff_report.main: the report with its change list is written, then the
\* current snapshot is copied over the previous one.
DiffReport ==
    /\ status = "fetched"
    /\ status' = "reported"
    /\ arg' = [arg EXCEPT !.reports = Append(@, Cardinality(Changes(load(arg.cur), load(arg.prev)))),
                          !.prev = IF arg.cur.ex THEN arg.cur ELSE @]
    /\ UNCHANGED <<remote, title_platform, changes, sameRemote, NPSSO, ONLINE_ID, faults, fileVars,
                   pc, refresh, p1Vars, p2Vars, wkVars, inflight, titleTimer, intr,
                   stoppedAt, oldIndex, oldCache, noUpdate>>

PriceNext == FetchPrices \/ DiffReport

PriceSpec == PriceInit /\ [][PriceNext]_vars

(* ------------------------------- claims ------------------------------- *)
\* A remote call that the provider never answers.
Hung == \E c \in inflight : c.hung

\* C1: a sync run that has started always eventually finishes and returns
\* its summary (or is interrupted by the user), whatever the provider does,
\* including a remote call that fails or never returns.
C1_RunAlwaysFinishes == (pc = "list_titles") ~> (pc \in {"done", "interrupted"})

\* C2: when the deadline of a bounded call (summary fetch, group listing,
\* per-title procedure) has passed and the call has not completed, the
\* caller has resumed: it is never still waiting for that worker.
C2_CallerResumesAtDeadline ==
    /\ \A c \in inflight : c.expired => pc \notin {"c_summary", "c_group", "c_retry"}
    /\ titleTimer = "expired" => pc \notin WorkerPcs

\* C3: once the per-title timeout has fired for a title's refresh, no later
\* step of the abandoned procedure changes that title's cache file.
C3_TimedOutTitleCacheUntouched ==
    [][(titleTimer = "expired" /\ pc \in WorkerPcs) => cache'[CurTitle] = cache[CurTitle]]_vars

\* C4: in every reachable state each cache file holds complete content:
\* while a refresh writes a file, the file is what it was before or the
\* complete new rows; no file is ever empty of its header.
C4_CacheNeverPartial ==
    /\ \A t \in DOMAIN cache : cache[t] # Truncated
    /\ pc = "c_write" => cache[CurTitle] \in {oldCache, FileOf(trows)}

\* C5: at every step of a title-index write that found an index, and after
\* an interrupt at any such step, the index path holds the previous
\* complete index or the new complete index.
C5_IndexAlwaysComplete ==
    (/\ oldIndex.ex
     /\ \/ pc \in WritePcs \ {"wt_open"}
        \/ pc = "interrupted" /\ stoppedAt \in WritePcs \ {"wt_open"})
    => titlesCsv \in {oldIndex, FileOf(rows)}

\* C6: a run interrupted right after the temp index file is written, before
\* any rename step, leaves the previous index at the index path with its
\* previous content (and no temp file).
C6_InterruptAfterTmpKeepsIndex ==
    /\ pc = "wt_backup" => titlesCsv = oldIndex
    /\ (pc = "interrupted" /\ stoppedAt = "wt_backup")
         => (titlesCsv = oldIndex /\ tmpCsv = Absent)

\* C6 witness: such an interrupt, with a previous index that differs from
\* the rows of the interrupted run.
C6_Witness ==
    /\ pc = "interrupted" /\ stoppedAt = "wt_backup"
    /\ oldIndex.ex /\ oldIndex # FileOf(rows)

\* C7: after a title-index write that found an index, the backup path holds
\* what the index was before the write and the index path holds the new
\* rows, in every run.
C7_BackupIsPreviousIndex ==
    (pc = "p2_begin" /\ oldIndex.ex) => (prevCsv = oldIndex /\ titlesCsv = FileOf(rows))

\* C7 witness: a write that replaced an index by a different one.
C7_Witness ==
    /\ pc = "p2_begin" /\ oldIndex.ex
    /\ oldIndex # FileOf(rows) /\ oldIndex.rows # <<>> /\ rows # <<>>

\* The cache rows of "A" that a refresh builds from the provider's data
\* when every call succeeds in time.
RECURSIVE RowsOfGroups(_, _, _)
RowsOfGroups(rs, groups, rem) ==
    IF groups = <<>> THEN rs
    ELSE LET g == Head(groups) IN
         RowsOfGroups(AddItems(rs, RemoteTrophies(rem, g.gid), g.gid,
                               GroupDisplayName(g, TitleName("A"))),
                      Tail(groups), rem)

\* The index row and the cache of "A" are the provider's data.
InSync ==
    remote.listed =>
      /\ titlesCsv.ex
      /\ \E i \in 1..Len(titlesCsv.rows) :
           titlesCsv.rows[i] = [id |-> "A", plat |-> "PS5", earned |-> RemoteEarned(remote),
                                total |-> RemoteTotal(remote), pct |-> RemotePercent(remote)]
      /\ cache["A"] = FileOf(RowsOfGroups(<<>>, RemoteGroups(remote), remote))

\* C8: with the provider's data fixed and the policy `changed`, repeated
\* runs converge: if runs keep being started and keep completing, then
\* from some run on every completed run leaves the index row and the cache
\* equal to the provider's data.
C8_RepeatedRunsConverge ==
    ([]<>(pc = "list_titles") /\ []<>(pc = "done"))
      => <>[](pc = "done" => InSync)

\* C9: every remote call made inside the detail-caching procedure runs
\* under a timeout of its own.
C9_EveryCacheCallTimed ==
    pc \in WorkerPcs => \A c \in inflight : c.timed

\* C10: for a title whose cache classifies as complete and for which the
\* previous index has no row with the same (remote id, platform), the
\* previous index being empty or absent included, change detection
\* requires a refresh.
C10_UnseenTitleNeedsRefresh ==
    (/\ pc = "p2_title" /\ j <= Len(rows) /\ refresh = "changed"
     /\ _cache_status(cache[rows[j].id], rows[j].total, rows[j].earned) = "complete"
     /\ Matching(new_prev, rows[j].id, rows[j].plat) = <<>>)
    => _should_refresh_cache(new_prev, rows[j], cache[rows[j].id])

\* The change detector is about to decide for the title of rows[j].
Deciding == pc = "p2_title" /\ j <= Len(rows) /\ refresh = "changed"

\* C11: whenever the title's cache classifies as missing or incomplete,
\* change detection requires a refresh, whatever the previous index holds
\* and whether or not the counters changed.
C11_IncompleteCacheNeedsRefresh ==
    (/\ Deciding
     /\ _cache_status(cache[rows[j].id], rows[j].total, rows[j].earned) # "complete")
    => _should_refresh_cache(new_prev, rows[j], cache[rows[j].id])

\* C11 witness: an incomplete cache for a title whose previous row has the
\* counters now observed.
C11_Witness ==
    /\ Deciding
    /\ _cache_status(cache[rows[j].id], rows[j].total, rows[j].earned) = "incomplete"
    /\ LET m == Matching(new_prev, rows[j].id, rows[j].plat)
       IN  /\ m # <<>>
           /\ m[1].earned = rows[j].earned
           /\ m[1].total = rows[j].total
           /\ m[1].pct = rows[j].pct

\* The rows the previous index file holds for the id and platform of r.
PrevRowsOf(r) == SelectSeq(new_prev, LAMBDA p : p.id = r.id /\ p.plat = ReadCell(r.plat))

\* C12: for a title with a complete cache and a row for the same (remote
\* id, platform) in the previous index, change detection requires a refresh
\* if and only if the earned count, the total or the percent differs from
\* the previous row's.
C12_RefreshIffCounterDiffers ==
    (/\ Deciding
     /\ _cache_status(cache[rows[j].id], rows[j].total, rows[j].earned) = "complete"
     /\ PrevRowsOf(rows[j]) # <<>>)
    => LET p == PrevRowsOf(rows[j])[1]
       IN  _should_refresh_cache(new_prev, rows[j], cache[rows[j].id])
             <=> (\/ rows[j].earned # p.earned
                  \/ rows[j].total # p.total
                  \/ rows[j].pct # p.pct)

\* C12 witness: a complete cache and a previous row whose earned count and
\* percent differ from the ones now observed, the total being the same.
C12_Witness ==
    /\ Deciding
    /\ _cache_status(cache[rows[j].id], rows[j].total, rows[j].earned) = "complete"
    /\ LET m == PrevRowsOf(rows[j])
       IN  /\ m # <<>>
           /\ m[1].earned # rows[j].earned
           /\ m[1].total = rows[j].total

\* C15: under the policy `none` no step of the run writes or changes a
\* cache file or enters the detail-caching procedure, and the run ends with
\* every title record counted as skipped and none as refreshed.
C15_NoneWritesNoCache ==
    [][(refresh = "none" /\ pc \notin StoppedPcs) =>
         /\ cache' = cache
         /\ pc' \notin WorkerPcs
         /\ pc' = "done" => (skipped' = Len(rows') /\ refreshed' = 0)]_vars

\* C15 witness: a run under `none` has ended with both titles skipped
\* although the previous index holds another earned count for "A" and "A"
\* has no cache.
C15_Witness ==
    /\ pc = "done" /\ refresh = "none"
    /\ Len(rows) = 2 /\ skipped = 2
    /\ cache["A"] = Absent
    /\ prevCsv.ex
    /\ \E i \in 1..Len(prevCsv.rows) :
         prevCsv.rows[i].id = "A" /\ prevCsv.rows[i].earned # rows[1].earned

\* C16: under the policy `all` the loop starts the detail-caching procedure
\* for every title record, whatever its cache status and the previous
\* index: from a pending record the next step starts it (or the run is
\* interrupted), the loop moves past a record only after its procedure has
\* ended, and no skip is counted.
C16_AllStartsEveryTitle ==
    [][(refresh = "all" /\ pc \notin StoppedPcs) =>
         /\ (pc = "p2_title" /\ j <= Len(rows)) => pc' \in {"c_begin", "interrupted"}
         /\ j' = j + 1 => pc = "p2_result"
         /\ skipped' = 0]_vars

\* C16 witness: under `all` the procedure starts for a title whose cache is
\* complete and whose previous row has the counters now observed.
C16_Witness ==
    /\ refresh = "all" /\ pc = "c_begin"
    /\ _cache_status(cache[CurTitle], rows[j].total, rows[j].earned) = "complete"
    /\ LET m == Matching(new_prev, rows[j].id, rows[j].plat)
       IN  /\ m # <<>>
           /\ m[1].earned = rows[j].earned
           /\ m[1].total = rows[j].total
           /\ m[1].pct = rows[j].pct

\* C17: under the policy `changed` the loop starts the detail-caching
\* procedure for a title record exactly when the change detector requires a
\* refresh; otherwise the record is counted as skipped and its cache file
\* stays as it is, also while the procedure runs for another title.
C17_ChangedStartsIffRequired ==
    [][/\ Deciding =>
            IF _should_refresh_cache(new_prev, rows[j], cache[rows[j].id])
            THEN /\ pc' \in {"c_begin", "interrupted"}
                 /\ skipped' = skipped
            ELSE /\ cache' = cache
                 /\ \/ pc' = "interrupted" /\ skipped' = skipped
                    \/ pc' = "p2_title" /\ j' = j + 1 /\ skipped' = skipped + 1
       /\ (refresh = "changed" /\ pc \in WorkerPcs) =>
            \A t \in DOMAIN cache \ {CurTitle} : cache'[t] = cache[t]]_vars

\* C17 witness: in one run under `changed` the first title was skipped with
\* its cache in place and the procedure starts for the second.
C17_Witness ==
    /\ refresh = "changed" /\ pc = "c_begin"
    /\ j = 2 /\ skipped = 1
    /\ cache[rows[1].id].ex

\* The rows the index read at the start holds for title t and its primary
\* platform.
StartRowsOf(t) ==
    SelectSeq(prev_df, LAMBDA p : p.id = t /\ p.plat = ReadCell(_platform_label(Primary(t))))

\* C18: in the titles pass, for a title whose (remote id, primary platform)
\* has a row in the previous index with the earned count and the percent
\* now observed, the new record takes that row's total and the loop goes
\* straight to the next title: no remote call is issued for it.
C18_UnchangedTitleReusesTotal ==
    [][(/\ pc = "p1_title" /\ idx <= Len(titles)
        /\ StartRowsOf(titles[idx]) # <<>>
        /\ StartRowsOf(titles[idx])[1].earned = EarnedNow(titles[idx])
        /\ StartRowsOf(titles[idx])[1].pct = PercentNow(titles[idx]))
       => \/ pc' = "interrupted"
          \/ /\ rows' = Append(rows, TitleRow(titles[idx], StartRowsOf(titles[idx])[1].total))
             /\ inflight' = {}
             /\ pc' = "p1_title"
             /\ idx' = idx + 1]_vars

\* C18 witness: the record of "A" has taken the previous row's total, which
\* is not the total the provider now defines.
C18_Witness ==
    /\ pc = "p1_title" /\ idx = 2 /\ Len(rows) = 1
    /\ StartRowsOf("A") # <<>>
    /\ rows[1].total = StartRowsOf("A")[1].total
    /\ rows[1].earned = StartRowsOf("A")[1].earned
    /\ rows[1].total # RemoteTotal(remote)

\* C19: a titles pass that found the index written by the titles pass
\* before it, the provider's data being unchanged in between, writes an
\* index identical to the one it found.
C19_SecondIndexIdentical ==
    [][(pc = "wt_rename" /\ oldIndex.ex /\ sameRemote)
       => (pc' = "interrupted" \/ titlesCsv' = oldIndex)]_vars

\* C19 witness: the second index is in place, equal to the first, with two
\* rows and a total for "A" that a failed call of the first run left.
C19_Witness ==
    /\ pc = "p2_begin" /\ oldIndex.ex /\ changes = 0
    /\ titlesCsv = oldIndex
    /\ Len(rows) = 2
    /\ rows[1].total # RemoteTotal(remote)

\* The bounded call in execution has passed its deadline.
Expired == \E c \in inflight : c.expired

\* C20: a group whose trophy fetch timed out is fetched once more, and only
\* once; a retry that timed out or failed adds no rows, and the loop goes on
\* to the next group.  A timed-out fetch does lead to the retry, and a
\* timed-out retry to the rest of the loop.
C20_TimedOutGroupRetriedOnce ==
    /\ [][/\ (pc = "c_group" /\ Expired /\ inflight' = {}) =>
                (pc' = "c_retry" /\ trows' = trows /\ gi' = gi)
          /\ (pc = "c_retry" /\ inflight # {} /\ inflight' = {}) =>
                /\ pc' # "c_retry"
                /\ pc' = "c_group" => gi' = gi + 1
                /\ gi < Len(gids) => pc' = "c_group"
                /\ (Expired \/ faults' # faults) => trows' = trows]_vars
    /\ (pc = "c_group" /\ Expired) ~> (pc = "c_retry")
    /\ (pc = "c_retry" /\ Expired) ~> (pc # "c_retry")

\* C13: the classifier answers `missing` when the cache file does not exist
\* and also when it exists but cannot be parsed.
C13_UnparseableIsMissing ==
    (status # "none" /\ (~arg.file.ex \/ ~arg.file.hdr)) => status = "missing"

\* C13, amended: the classifier answers `missing` exactly when the cache
\* file does not exist; for a file that exists but cannot be parsed it
\* answers `incomplete`.
C13_UnparseableIsIncomplete ==
    status # "none" =>
      /\ status = "missing" <=> ~arg.file.ex
      /\ (arg.file.ex /\ ~arg.file.hdr) => status = "incomplete"

\* C13 witness: the classifier has answered for a file that exists and
\* cannot be parsed.
C13_Witness == status = "incomplete" /\ arg.file.ex /\ ~arg.file.hdr

\* C14: for a parseable cache the classifier answers `complete` exactly
\* when the cache has rows, some row has an earned value, the earned sum is
\* not 0 while expected_earned > 0, the distinct trophy ids are at least
\* expected_total (when that is nonzero) and some row has a non-empty group
\* name; otherwise it answers `incomplete`.
C14_CompleteExactlyWhen ==
    (status # "none" /\ arg.file.ex /\ arg.file.hdr) =>
      LET rs == arg.file.rows
          ok == /\ rs # <<>>
                /\ \E i \in 1..Len(rs) : rs[i].earned # ""
                /\ ~(arg.expected_earned > 0 /\ \A i \in 1..Len(rs) : rs[i].earned # "True")
                /\ arg.expected_total # 0 =>
                     Cardinality({rs[i].tid : i \in 1..Len(rs)}) >= arg.expected_total
                /\ \E i \in 1..Len(rs) : Strip(rs[i].gname) # ""
      IN  status = (IF ok THEN "complete" ELSE "incomplete")

\* C21: the timeout of the single retry of a group's listing is half of the
\* configured group timeout, for every configured value, so the retry never
\* waits longer than the first attempt.
C21_RetryWaitsHalf ==
    status = "returned" =>
        /\ 2 * arg.retry = arg.group_timeout
        /\ arg.retry <= arg.first

\* C21, amended: the retry's timeout is half of the group timeout or 3
\* seconds, whichever is larger; the retry waits no longer than the first
\* attempt exactly when the group timeout is at least 3 seconds.
C21_RetryWaitsHalfOrThreeSeconds ==
    status = "returned" =>
        /\ arg.retry = IF arg.group_timeout >= Seconds(6)
                       THEN arg.group_timeout \div 2 ELSE Seconds(3)
        /\ (arg.retry <= arg.first) <=> (arg.group_timeout >= Seconds(3))

\* A group timeout of 2 seconds: the retry waits 3 seconds.
C21_Witness ==
    /\ status = "returned"
    /\ arg.group_timeout = Seconds(2)
    /\ arg.first = Seconds(2)
    /\ arg.retry = Seconds(3)

\* C22: an exception raised by a single remote call (the title list, a
\* group summary, a group's trophy list) is contained at that call and
\* never aborts the run: the run goes on to write the index and to return
\* its summary.
C22_FailedCallNeverAborts ==
    [][(/\ inflight # {}
        /\ inflight' = {}
        /\ faults' = faults + 1
        /\ pc' # "interrupted") => pc' \notin StoppedPcs]_vars

\* C23: if either of the two credentials is missing, sync fails with the
\* fatal configuration error before any remote call is made and before the
\* index, its temporary or backup file, or a cache file is written or renamed.
C23_MissingCredentialStopsFirst ==
    [][(NPSSO' = "" \/ ONLINE_ID' = "") =>
          /\ pc' \in {"idle", "fatal"}
          /\ inflight' = {}
          /\ UNCHANGED fileVars]_vars

\* A run without the online id has failed; the index of an earlier run is there.
C23_Witness ==
    /\ pc = "fatal"
    /\ NPSSO = "value"
    /\ ONLINE_ID = ""
    /\ titlesCsv.ex
    /\ cache["A"].ex

\* C24: at every point of a run at most one remote call is in flight: a
\* new call (next group, retry, next title) is never started while an
\* earlier one, including one whose timeout has fired, is still executing.
C24_OneCallInFlight == Cardinality(inflight) <= 1

\* The retry of a group's listing is executing: the first attempt timed
\* out and has ended.
C24_Witness ==
    /\ pc = "c_retry"
    /\ Cardinality(inflight) = 1
    /\ \A c \in inflight : c.op = "trophies" /\ ~c.expired

\* C25: every cache file written by a refresh holds at most one row per
\* (group id, trophy id): items that share both in the raw listings of one
\* title refresh are collapsed to a single row.
C25_OneRowPerGroupAndTrophy ==
    \A t \in DOMAIN cache :
        \A i, k \in 1..Len(cache[t].rows) :
            (cache[t].rows[i].gid = cache[t].rows[k].gid
             /\ cache[t].rows[i].tid = cache[t].rows[k].tid) => i = k

\* A refresh has written the DLC group, whose listing repeats its trophy.
C25_Witness ==
    /\ pc = "p2_result"
    /\ n = 3
    /\ Len(RemoteTrophies(remote, "001")) = 2
    /\ Len(SelectSeq(cache["A"].rows, LAMBDA r : r.gid = "001")) = 1

\* C26: for every title and every group whose id is one of default, all,
\* "0", "000" and whose remote name is empty, the GroupName written in the
\* title's cache rows for the group is the title's own display name, for
\* every title display name.
C26_BaseGroupNamedAfterTitle ==
    (status = "returned" /\ arg.gid \in BaseGroupIds /\ arg.name = "") =>
        arg.group_name = arg.title

\* C26, amended: the GroupName is the title's display name when that name
\* is not empty; for an empty display name it is "Base Game" when the group
\* summary gave the name map, and empty when it did not.
C26_BaseGroupNamedAfterTitleOrBaseGame ==
    (status = "returned" /\ arg.gid \in BaseGroupIds /\ arg.name = "") =>
        arg.group_name = IF arg.title # "" THEN arg.title
                         ELSE IF arg.summary THEN "Base Game" ELSE ""

\* The base group of a title without a display name, named by the summary.
C26_Witness ==
    /\ status = "returned"
    /\ arg.gid = "default"
    /\ arg.name = ""
    /\ arg.title = ""
    /\ arg.summary
    /\ arg.group_name = "Base Game"

\* C27: in one title refresh the number of distinct groups for which a
\* trophy listing is requested is at most max_groups when max_groups > 0,
\* and every resolved group is processed when max_groups is 0.
C27_GroupsCapped ==
    status = "returned" =>
        LET asked == {arg.requested[i] : i \in 1..Len(arg.requested)}
            resolved == {arg.ids[i] : i \in 1..Len(arg.ids)}
        IN  /\ arg.max_groups > 0 => Cardinality(asked) <= arg.max_groups
            /\ arg.max_groups = 0 => asked = resolved
            /\ asked \subseteq resolved

\* Three groups resolved under a cap of two: two listings are asked for.
C27_Witness ==
    /\ status = "returned"
    /\ arg.max_groups = 2
    /\ Len(Uniq(arg.ids)) = 3
    /\ Len(arg.requested) = 2

\* C28: when a title's detail-caching procedure completes with zero rows
\* (all groups empty, failed or timed out), the title's cache file is left
\* exactly as it was and no new file is created: the procedure changes a
\* cache file only while it writes a list of rows that is not empty, whose
\* length it then returns.
C28_ZeroRowsLeaveCache ==
    [][(pc \in WorkerPcs /\ cache' # cache) =>
          /\ pc \in {"c_open", "c_write"}
          /\ trows # <<>>
          /\ trows' = trows
          /\ pc' = "p2_result" => n' = Len(trows)]_vars

\* The procedure has ended for title "A" with no rows; the cache file of
\* an earlier run is there.
C28_Witness ==
    /\ pc = "p2_result"
    /\ CurTitle = "A"
    /\ trows = <<>>
    /\ n = 0
    /\ cache["A"].hdr
    /\ cache["A"].rows # <<>>

\* C29: when a refresh writes a title's cache file, the file afterwards
\* holds exactly the rows produced by that refresh and no row of the
\* previous content, also when some groups of the refresh gave no rows.
C29_CacheHoldsRowsOfRefresh ==
    (pc = "p2_result" /\ n > 0) => cache[CurTitle] = FileOf(trows)

\* The file had three rows; the refresh, whose DLC listing gave nothing,
\* has written two.
C29_Witness ==
    /\ pc = "p2_result"
    /\ n = 2
    /\ remote.dlc
    /\ Len(oldCache.rows) = 3
    /\ cache["A"] = FileOf(trows)

\* C30: at the end of every run the refreshed count of the summary equals
\* the number of per-title cache files that were rewritten during the run.
C30_RefreshedCountsRewrites == pc = "done" => refreshed = rewritten

\* C31: the primary platform chosen for a title is, for every non-empty
\* platform set, the first of PS5, PS4, PS3, PSVITA that the set holds, or
\* an element of the set when it holds none of them; for an empty set no
\* platform is chosen.
C31_PrimaryIsFirstPreferred ==
    status = "returned" =>
        \A p \in {arg.primary, arg.primary_v21} :
            /\ arg.p_set = {} => p = NoPlatform
            /\ arg.p_set # {} => p \in arg.p_set
            /\ \A i \in 1..Len(PreferenceOrder) :
                 (/\ PreferenceOrder[i] \in arg.p_set
                  /\ \A k \in 1..(i - 1) : PreferenceOrder[k] \notin arg.p_set)
                 => p = PreferenceOrder[i]

\* A set with PS4, PS3 and a platform outside the order: PS4 is chosen.
C31_Witness ==
    /\ status = "returned"
    /\ arg.p_set = {"PS4", "PS3", "PSPC"}
    /\ arg.primary = "PS4"
    /\ arg.primary_v21 = "PS4"

\* C32: the trophy-count aggregate function returns a non-negative integer
\* and never raises, for every input shape: an object with any of the four
\* grade fields (integers, absent or non-integers), a mapping, an attribute
\* bag, or none; absence of data yields 0.
C32_AggregateNeverRaises ==
    status = "returned" =>
        /\ ~arg.total.raised
        /\ arg.total.value >= 0
        /\ (\A k \in FieldKeys : arg.obj.f[k].t # "int") => arg.total.value = 0

\* C34: for a mapping-shaped aggregate the result is the sum of the integer
\* values under the four grade keys when that sum is nonzero, and the sum
\* of all integer values of the mapping only otherwise; extra integer keys
\* next to nonzero grade keys are not added.
C34_MappingPrefersGradeKeys ==
    (status = "returned" /\ arg.obj.shape = "dict") =>
        arg.total = Returned(IF IntSum(arg.obj.f, GradeKeys) # 0
                             THEN IntSum(arg.obj.f, GradeKeys)
                             ELSE IntSum(arg.obj.f, FieldKeys))

\* The rows of the index the run found that the titles pass compares with
\* the new record r.
FoundRowsOf(r) ==
    SelectSeq(ReadIndex(oldIndex), LAMBDA p : p.id = r.id /\ p.plat = r.plat)

\* C33: reusing the previous total can mask a genuine change of the total:
\* when a run has ended, a title recorded with the earned count and percent
\* that the index found by the run had for it is recorded with the total of
\* that index, whatever total the provider now defines; and there is a
\* sequence of runs after which that total is not the provider's.
C33_UnchangedProgressKeepsOldTotal ==
    (pc = "done" /\ oldIndex.hdr) =>
        \A i \in 1..Len(titlesCsv.rows) :
            LET new == titlesCsv.rows[i]
                old == FoundRowsOf(new)
            IN  (old # <<>> /\ old[1].earned = new.earned /\ old[1].pct = new.pct)
                    => new.total = old[1].total

\* No call failed, hung or timed out and no run was interrupted; the
\* provider added the DLC group between two runs, earned and percent staying
\* 0; the second run has ended and the index still records 2 trophies where
\* the provider defines 3.
C33_Witness ==
    /\ pc = "done"
    /\ faults = 0
    /\ changes = 1
    /\ sameRemote
    /\ oldIndex.hdr
    /\ RemoteTotal(remote) = 3
    /\ \E i \in 1..Len(titlesCsv.rows) :
         /\ titlesCsv.rows[i].id = "A"
         /\ titlesCsv.rows[i].earned = RemoteEarned(remote)
         /\ titlesCsv.rows[i].pct = RemotePercent(remote)
         /\ titlesCsv.rows[i].total = 2
         /\ FoundRowsOf(titlesCsv.rows[i]) # <<>>
         /\ FoundRowsOf(titlesCsv.rows[i])[1].total = 2

\* C35: in the detail-caching procedure the group list is resolved by a
\* fixed fallback chain: the ids of the group-name map; if that map is
\* empty (also because the summary fetch timed out, which gives an empty
\* map and does not fail the title), the raw group ids enumerated from the
\* provider; if those are empty too, the single group `default`.
C35_GroupListFallbackChain ==
    [][/\ (pc = "c_summary" /\ pc' # "c_summary") =>
            IF faults' = faults /\ \A c \in inflight : ~c.expired
            THEN /\ gmap' = _group_name_map(RemoteGroups(remote), TitleName(CurTitle))
                 /\ gids' = [i \in 1..Len(gmap') |-> gmap'[i].gid]
                 /\ gids' # <<>>
                 /\ pc' = "c_group"
            ELSE /\ gmap' = <<>>
                 /\ pc' = "c_group_ids"
       /\ (pc = "c_group_ids" /\ pc' # "c_group_ids") =>
            /\ pc' = "c_group"
            /\ gids' = IF faults' = faults
                       THEN _group_ids(RemoteGroups(remote))
                       ELSE <<"default">>]_vars

\* The summary gave no map, and the groups are the enumerated raw ids.
C35_Witness ==
    /\ pc = "c_group"
    /\ gmap = <<>>
    /\ gids = <<"default", "001">>
    /\ gi = 1
    /\ trows = <<>>

\* C36: under the `changed` policy, a title whose refresh was started in
\* the run before because its counters had changed and ended there with no
\* update (per-title timeout or zero rows) is refreshed again by this run,
\* the provider's counters being as they were.
C36_NoUpdateIsRefreshedAgain ==
    (/\ pc = "p2_title"
     /\ j <= Len(rows)
     /\ refresh = "changed"
     /\ rows[j].id \in noUpdate.last)
    => Need(rows[j])

\* C37: in every run the previous index that pass 2 uses for change
\* detection (the backup read after the index write) has the content of the
\* index that was current at the start of the run and that pass 1 used for
\* reusing totals, also in a run that follows an interrupted run.
C37_BackupIsIndexAtStart ==
    pc = "p2_title" => new_prev = prev_df

\* The labels _platform_from_label knows.
KnownLabels == {"PS5", "PS4", "PS3", "PSVITA"}

\* C38: a title whose recorded platform label is none of PS5, PS4, PS3,
\* PSVITA (empty, or a primary platform outside these four) never has a
\* detail cache written, and its turn in the trophies pass issues no remote
\* call, under every refresh policy and in every run.
C38_UnknownLabelNeverCached ==
    \A t \in {"A", "B"} :
        _platform_label(Primary(t)) \notin KnownLabels =>
            /\ cache[t] = Absent
            /\ (pc \in WorkerPcs \cup {"p2_result"} /\ rows[j].id = t) =>
                   (pc \in {"c_begin", "p2_result"} /\ inflight = {} /\ n = 0)

\* The procedure has returned at once for "B" on PSPC, under the policy
\* `all`, in a run after the first.
C38_Witness ==
    /\ pc = "p2_result"
    /\ refresh = "all"
    /\ rows[j] = [id |-> "B", plat |-> "PSPC", earned |-> 0, total |-> 2, pct |-> 0]
    /\ prevCsv.ex
    /\ n = 0

\* C39: with no live price credentials and an unchanged watchlist,
\* fetch_prices then diff_report run twice in a row give a second report
\* with zero changes.
C39_SecondReportHasNoChanges ==
    \A k \in 2..Len(arg.reports) : arg.reports[k] = 0

\* The first report listed two changes, the second none: two titles on the
\* watchlist, a stale snapshot before.
C39_Witness ==
    /\ status = "reported"
    /\ arg.reports = <<2, 0>>
    /\ arg.prev = arg.cur
    /\ Len(arg.cur.items) = 2

====
